---- MODULE Spec2Model ----
(***************************************************************************)
(* The blog demo (demos/blog/blog.py): a relational store with the tables  *)
(* authors and entries, a signed session cookie per client, and request    *)
(* handlers that run as coroutines and suspend at every database round     *)
(* trip and at every password-hash offload.  One action is one resumption  *)
(* of a coroutine: the awaited statement together with the code that runs  *)
(* up to the next await.                                                   *)
(***************************************************************************)
EXTENDS Integers, Sequences, FiniteSets, TLC

(* ------------------------------ bounds -------------------------------- *)

\* Requests in flight at the same time.
MaxReq == 2
\* Entries the store may hold.
MaxEntries == 3
\* Browsers.
MaxClients == 1
\* Characters of a title whose slug candidate is examined.
MaxTitleLen == 2

Reqs == 1..MaxReq
Clients == 1..MaxClients

(* ------------------------------ inputs -------------------------------- *)

\* Submitted form fields.  Every request submits its required fields
\* (title, markdown, email, name, password).
Emails == {"a@x", "b@x"}
Passwords == {"pw1", "pw2"}
Names == {"Ann"}
Salts == {"s1"}
\* The submitted posts.  "A" generates the candidate slug "a", and "a 2" the
\* slug that the first collision on "a" is given.
Posts ==
    {[title |-> <<"A">>, text |-> "hi"],
     [title |-> <<"a", " ", "2">>, text |-> "# hi"]}
\* The posts of the specification of every route.
SitePosts == {[title |-> <<"A">>, text |-> "hi"]}
\* The slugs GET /entry/{slug} names: the candidate of "A", and one that no
\* title generates.
Slugs == {<<"a">>, <<"A">>}
\* The `next` argument: "" is an absent argument.
Nexts == {"", "/archive"}
\* An id a cookie of an earlier database may carry and no Author has.
StaleIds == {9}

\* The ids a compose request names: the first Entry's, and one no Entry has.
EditIds == {1, MaxEntries + 1}

\* The `id` argument of /compose: absent, the empty string, a string that is
\* no integer literal, or an integer literal.
IdArgs ==
    {[kind |-> k, n |-> 0] : k \in {"absent", "empty", "malformed"}}
        \cup {[kind |-> "int", n |-> i] : i \in EditIds}
AbsentId == [kind |-> "absent", n |-> 0]

(* ------------------------- the slug generator ------------------------- *)

\* The characters of a title: ASCII letters, a digit, the underscore,
\* white space, punctuation, the hyphen, a precomposed accented letter
\* (U+00E9), its combining accent (U+0301) and a non-ASCII letter (U+4E2D).
Chars == {"a", "A", "e", "2", "_", " ", "!", "-", "eacute", "acute", "zh"}

\* Every title of at most MaxTitleLen of these characters, as a post.
Titles == UNION {[1..k -> Chars] : k \in 0..MaxTitleLen}
TitlePosts == {[title |-> t, text |-> "hi"] : t \in Titles}

RECURSIVE Flatten(_)
Flatten(ss) == IF ss = <<>> THEN <<>> ELSE Head(ss) \o Flatten(Tail(ss))

\* unicodedata.normalize("NFKD", title): accented forms are decomposed.
NFKDChar(c) == IF c = "eacute" THEN <<"e", "acute">> ELSE <<c>>
NFKD(s) == Flatten([i \in 1..Len(s) |-> NFKDChar(s[i])])

\* \w of a str pattern: alphanumerics of any script and the underscore.  A
\* combining mark is not alphanumeric.
IsWordChar(c) == c \in {"a", "A", "e", "2", "_", "eacute", "zh", "n", "t", "r", "y"}

RECURSIVE DropNonWord(_)
DropNonWord(s) ==
    IF s = <<>> \/ IsWordChar(Head(s)) THEN s ELSE DropNonWord(Tail(s))

\* re.sub(r"[^\w]+", " ", slug): each run of non-word characters becomes one
\* space.
RECURSIVE SubNonWord(_)
SubNonWord(s) ==
    IF s = <<>> THEN <<>>
    ELSE IF IsWordChar(Head(s)) THEN <<Head(s)>> \o SubNonWord(Tail(s))
    ELSE <<" ">> \o SubNonWord(DropNonWord(Tail(s)))

LowerChar(c) == IF c = "A" THEN "a" ELSE c
Lower(s) == [i \in 1..Len(s) |-> LowerChar(s[i])]

\* str.split(): the maximal runs of non-space characters (strip() goes with
\* it: leading and trailing white space yields no word).
RECURSIVE SplitAcc(_, _)
SplitAcc(s, word) ==
    IF s = <<>> THEN (IF word = <<>> THEN <<>> ELSE <<word>>)
    ELSE IF Head(s) = " "
         THEN (IF word = <<>> THEN <<>> ELSE <<word>>) \o SplitAcc(Tail(s), <<>>)
         ELSE SplitAcc(Tail(s), Append(word, Head(s)))
Split(s) == SplitAcc(s, <<>>)

\* "-".join(words)
RECURSIVE JoinHyphen(_)
JoinHyphen(ws) ==
    IF ws = <<>> THEN <<>>
    ELSE IF Len(ws) = 1 THEN ws[1]
    ELSE ws[1] \o <<"-">> \o JoinHyphen(Tail(ws))

IsAscii(c) == c \notin {"eacute", "acute", "zh"}

\* An encoding that keeps every code point.
EncodeKeep(s) == s
\* slug.encode("ascii", "ignore").decode("ascii"): non-ASCII code points
\* are dropped.
EncodeAsciiIgnore(s) == SelectSeq(s, IsAscii)

EntryLiteral == <<"e", "n", "t", "r", "y">>

\* ComposeHandler.post, the slug candidate of a title.
SlugCandidate(title) ==
    LET slug == EncodeAsciiIgnore(JoinHyphen(Split(Lower(SubNonWord(NFKD(title))))))
    IN  IF slug = <<>> THEN EntryLiteral ELSE slug

\* A loop that probes the same slug again.
AppendNothing(slug) == slug
\* An incrementing counter instead of the literal suffix.
AppendCounter(slug) == slug \o <<"-", "3">>
\* slug += "-2"
AppendSuffix(slug) == slug \o <<"-", "2">>

(* ------------------------- the Markdown renderer ---------------------- *)

\* markdown.markdown(text) on the submitted texts.
Render(text) ==
    CASE text = "hi" -> "<p>hi</p>"
      [] text = "# hi" -> "<h1>hi</h1>"
      [] OTHER -> ""

(* ------------------------- the password hasher ------------------------ *)

\* bcrypt.hashpw(password, salt): the salt and a digest of salt and password.
HashPw(password, salt) == [salt |-> salt, digest |-> <<salt, password>>]
\* A check that accepts every password.
CheckPwAny(password, hashed) == TRUE
\* bcrypt.checkpw(password, hashed): hashes again with the stored salt.
CheckPw(password, hashed) == HashPw(password, hashed.salt) = hashed

(* ------------------------------ the state ----------------------------- *)

VARIABLES
    authors,    \* the authors table: a set of rows
    entries,    \* the entries table: a set of rows
    now,        \* the store's clock (CURRENT_TIMESTAMP)
    cookie,     \* each client's blogdemo_user cookie
    req         \* the requests in flight: arguments, position, locals, response

vars == <<authors, entries, now, cookie, req>>

\* The cookie jar: no cookie, a cookie signed with the server's secret, or
\* a value whose signature does not verify.
NoCookie == [present |-> FALSE, valid |-> FALSE, id |-> 0]
SignedCookie(id) == [present |-> TRUE, valid |-> TRUE, id |-> id]
TamperedCookie(id) == [present |-> TRUE, valid |-> FALSE, id |-> id]

NoAuthor == [id |-> 0, email |-> "", name |-> "", hashed_password |-> HashPw("", "")]
NoUri == [path |-> "", id |-> AbsentId]
NoResp ==
    [kind |-> "none", status |-> 0, template |-> "", error |-> "", entry |-> 0,
     rows |-> <<>>, path |-> "", slug |-> <<>>, next |-> NoUri]

Idle ==
    [pc |-> "idle", kind |-> "none", client |-> 0, cookie |-> NoCookie,
     id |-> AbsentId, title |-> <<>>, text |-> "", email |-> "", name |-> "",
     password |-> "", next |-> "", user |-> 0, slug |-> <<>>,
     author |-> NoAuthor, resp |-> NoResp]

\* self.render(template, ...)
RenderPage(template, error, entry) ==
    [NoResp EXCEPT !.kind = "render", !.status = 200, !.template = template,
                   !.error = error, !.entry = entry]
\* self.render(template, entries=rows), self.render(template, entry=row)
RenderRows(template, rows) ==
    [NoResp EXCEPT !.kind = "render", !.status = 200, !.template = template,
                   !.rows = rows]
\* self.redirect(path + slug)
RedirectTo(path, slug) ==
    [NoResp EXCEPT !.kind = "redirect", !.status = 302, !.path = path, !.slug = slug]
\* raise tornado.web.HTTPError(status, message); an exception no handler
\* catches ends the request with status 500.
HttpError(status, message) ==
    [NoResp EXCEPT !.kind = "error", !.status = status, !.error = message]

\* request.uri: the path and the query string.  A GET carries its `id` in
\* the query string, a POST carries its fields in the form body.
RequestUri(q) ==
    CASE q.kind = "compose_get" -> [path |-> "/compose", id |-> q.id]
      [] q.kind = "compose_post" -> [path |-> "/compose", id |-> AbsentId]
      [] OTHER -> NoUri

\* The request `q` answered with `resp`: its form fields and locals are
\* gone; the cookie it carried, the user it ran as and the `id` of its URI
\* are kept.
Answered(q, resp) ==
    [Idle EXCEPT !.pc = "done", !.kind = q.kind, !.cookie = q.cookie,
                 !.user = q.user, !.id = RequestUri(q).id, !.resp = resp]
\* The request in slot `r` ends with response `resp`.
Finish(r, resp) == [req EXCEPT ![r] = Answered(req[r], resp)]
Goto(r, pc) == [req EXCEPT ![r].pc = pc]

At(r, kind, pc) == req[r].kind = kind /\ req[r].pc = pc

\* bool(id) of the `id` argument: an absent argument is None, and the empty
\* string is false too.
IdGiven(id) == id.kind \in {"malformed", "int"}
\* int(id) raises ValueError unless the string is an integer literal.
IdParses(id) == id.kind = "int"

Init ==
    /\ authors = {}
    /\ entries = {}
    /\ now = 1
    /\ cookie = [c \in Clients |-> NoCookie]
    /\ req = [r \in Reqs |-> Idle]

(* ------------------------------ the store ----------------------------- *)

\* The schema's surrogate keys: a serial id per table; no row is deleted.
NextId(rows) == Cardinality(rows) + 1
\* authors.email UNIQUE: an INSERT of a taken email fails.
EmailFree(email, rows) == \A a \in rows : a.email # email
\* No constraint on entries.slug.
SlugUnconstrained(slug, rows) == TRUE
\* entries.slug UNIQUE: an INSERT of a taken slug fails.
SlugFree(slug, rows) == \A e \in rows : e.slug # slug

\* ORDER BY published ASC
RECURSIVE OrderByPublishedAsc(_)
OrderByPublishedAsc(rows) ==
    IF rows = {} THEN {<<>>}
    ELSE UNION {{<<e>> \o s : s \in OrderByPublishedAsc(rows \ {e})} :
                  e \in {e \in rows : \A f \in rows : e.published <= f.published}}
\* SELECT * FROM entries ORDER BY published DESC: the orders the store may
\* answer in; rows of one timestamp come in any order.
RECURSIVE OrderByPublishedDesc(_)
OrderByPublishedDesc(rows) ==
    IF rows = {} THEN {<<>>}
    ELSE UNION {{<<e>> \o s : s \in OrderByPublishedDesc(rows \ {e})} :
                  e \in {e \in rows : \A f \in rows : f.published <= e.published}}
\* LIMIT n
Limit(rows, n) == SubSeq(rows, 1, IF Len(rows) < n THEN Len(rows) ELSE n)
\* HomeHandler.get: LIMIT 5
HomeLimit == 5
\* FeedHandler.get: LIMIT 10
FeedLimit == 10

\* get_cookie in place of get_signed_cookie: the signature is not verified.
GetCookieUnverified(c) == IF c.present THEN c.id ELSE 0
\* get_signed_cookie("blogdemo_user"): None (0) unless the cookie is there
\* and its signature verifies.
GetSignedCookie(c) == IF c.present /\ c.valid THEN c.id ELSE 0

\* A prepare that trusts the cookie's payload without the SELECT.
CurrentUserNoLookup(c, rows) == GetSignedCookie(c)
\* BaseHandler.prepare: the Author the cookie names, or None (0).
CurrentUser(c, rows) ==
    LET user_id == GetSignedCookie(c)
    IN  IF user_id # 0 /\ \E a \in rows : a.id = user_id THEN user_id ELSE 0

\* A login URL that is not the login route.
LoginUrlCreate == "/auth/create"
\* settings["login_url"]
LoginUrl == "/auth/login"

\* The login redirect of tornado.web.authenticated: to the login URL, with
\* the request's URI as `next`.
LoginChallenge(uri) ==
    [NoResp EXCEPT !.kind = "redirect", !.status = 302, !.path = LoginUrl, !.next = uri]

\* The methods under @tornado.web.authenticated.
RequiresAuth(kind) == kind \in {"compose_get", "compose_post"}

\* The compose-create requests that have not answered yet.
CreatesInFlight ==
    {r \in Reqs : req[r].kind = "compose_post" /\ req[r].pc \in {"probe", "insert"}}

(* ------------------------------ requests ------------------------------ *)

\* A request is taken by the first handler slot that runs no request.
Free(r) ==
    /\ req[r].pc \in {"idle", "done"}
    /\ \A q \in Reqs : q < r => req[q].pc \notin {"idle", "done"}

\* The cookie a request carries: the browser's, none, a value whose
\* signature does not verify, or a cookie of an earlier database.
Sendable(c) ==
    {cookie[c], NoCookie, TamperedCookie(1)} \cup {SignedCookie(i) : i \in StaleIds}

\* ComposeHandler.post up to its first await: the arguments are read, and
\* the create branch, which reads `id` no more, generates the slug candidate.
ComposePostBegin(q) ==
    IF IdGiven(q.id)
    THEN [q EXCEPT !.pc = "select"]
    ELSE [q EXCEPT !.pc = "probe", !.id = AbsentId, !.slug = SlugCandidate(q.title)]

\* BaseHandler.prepare
Prepare(q) == [q EXCEPT !.user = CurrentUser(q.cookie, authors)]

\* tornado.web.authenticated: a request with no current user is answered
\* with the login redirect and its method does not run.
Authenticated(q, method) ==
    IF q.user = 0 THEN Answered(q, LoginChallenge(RequestUri(q))) ELSE method

\* RequestHandler._execute: prepare, then the method up to its first await.
Execute(q) ==
    LET p == Prepare(q)
    IN  CASE p.kind = "compose_get" -> Authenticated(p, [p EXCEPT !.pc = "handler"])
          [] p.kind = "compose_post" -> Authenticated(p, ComposePostBegin(p))
          [] OTHER -> [p EXCEPT !.pc = "handler", !.cookie = NoCookie, !.user = 0]

\* A request arrives from client `c` with cookie `sent`.
Arrive(c, sent, kind) ==
    [Idle EXCEPT !.pc = "prepare", !.kind = kind, !.client = c, !.cookie = sent]

ReceiveComposeGet(r, c, sent, id) ==
    /\ Free(r)
    /\ req' = [req EXCEPT ![r] = Execute([Arrive(c, sent, "compose_get") EXCEPT !.id = id])]
    /\ UNCHANGED <<authors, entries, now, cookie>>

\* POST /compose; a create is taken while the store, with the creates in
\* flight, holds fewer than `cap` Entries.
ReceiveComposePostUpTo(cap, r, c, sent, id, title, text) ==
    /\ Free(r)
    /\ IdGiven(id) \/ Cardinality(entries) + Cardinality(CreatesInFlight) < cap
    /\ req' = [req EXCEPT ![r] = Execute([Arrive(c, sent, "compose_post") EXCEPT
                                            !.id = id, !.title = title, !.text = text])]
    /\ UNCHANGED <<authors, entries, now, cookie>>

ReceiveComposePost(r, c, sent, id, title, text) ==
    ReceiveComposePostUpTo(MaxEntries, r, c, sent, id, title, text)

\* A GET of a route that takes no argument: /, /archive, /feed,
\* /auth/create, /auth/login.
ReceiveGet(r, c, sent, kind) ==
    /\ Free(r)
    /\ req' = [req EXCEPT ![r] = Execute(Arrive(c, sent, kind))]
    /\ UNCHANGED <<authors, entries, now, cookie>>

\* GET /entry/{slug}
ReceiveEntryGet(r, c, sent, slug) ==
    /\ Free(r)
    /\ req' = [req EXCEPT ![r] = Execute([Arrive(c, sent, "entry_get") EXCEPT
                                            !.slug = slug])]
    /\ UNCHANGED <<authors, entries, now, cookie>>

(* ------------------------------ read paths ---------------------------- *)

\* HomeHandler.get
HomeGet(r) ==
    /\ At(r, "home_get", "handler")
    /\ \E rows \in OrderByPublishedDesc(entries) :
          req' = IF Limit(rows, HomeLimit) = <<>>
                 THEN Finish(r, RedirectTo("/compose", <<>>))
                 ELSE Finish(r, RenderRows("home.html", Limit(rows, HomeLimit)))
    /\ UNCHANGED <<authors, entries, now, cookie>>

\* A lookup that leaves out the WHERE clause.
EntryGetAny(r) ==
    /\ At(r, "entry_get", "handler")
    /\ req' = IF entries # {}
              THEN Finish(r, RenderRows("entry.html", <<CHOOSE e \in entries : TRUE>>))
              ELSE Finish(r, HttpError(404, ""))
    /\ UNCHANGED <<authors, entries, now, cookie>>
\* EntryHandler.get
EntryGet(r) ==
    /\ At(r, "entry_get", "handler")
    /\ req' = IF \E e \in entries : e.slug = req[r].slug
              THEN Finish(r, RenderRows("entry.html",
                                        <<CHOOSE e \in entries : e.slug = req[r].slug>>))
              ELSE Finish(r, HttpError(404, ""))
    /\ UNCHANGED <<authors, entries, now, cookie>>

\* ArchiveHandler.get
ArchiveGet(r) ==
    /\ At(r, "archive_get", "handler")
    /\ \E rows \in OrderByPublishedDesc(entries) :
          req' = Finish(r, RenderRows("archive.html", rows))
    /\ UNCHANGED <<authors, entries, now, cookie>>

\* FeedHandler.get
FeedGet(r) ==
    /\ At(r, "feed_get", "handler")
    /\ \E rows \in OrderByPublishedDesc(entries) :
          req' = Finish(r, RenderRows("feed.xml", Limit(rows, FeedLimit)))
    /\ UNCHANGED <<authors, entries, now, cookie>>

ReceiveAuthCreate(r, c, sent, email, name, password, next) ==
    /\ Free(r)
    /\ req' = [req EXCEPT ![r] = Execute([Arrive(c, sent, "auth_create") EXCEPT
                                            !.email = email, !.name = name,
                                            !.password = password, !.next = next])]
    /\ UNCHANGED <<authors, entries, now, cookie>>

ReceiveAuthLogin(r, c, sent, email, password, next) ==
    /\ Free(r)
    /\ req' = [req EXCEPT ![r] = Execute([Arrive(c, sent, "auth_login") EXCEPT
                                            !.email = email, !.password = password,
                                            !.next = next])]
    /\ UNCHANGED <<authors, entries, now, cookie>>

ReceiveAuthLogout(r, c, sent, next) ==
    /\ Free(r)
    /\ req' = [req EXCEPT ![r] = Execute([Arrive(c, sent, "auth_logout") EXCEPT
                                            !.next = next])]
    /\ UNCHANGED <<authors, entries, now, cookie>>

(* ------------------------------ /compose ------------------------------ *)

\* ComposeHandler.get
ComposeGet(r) ==
    /\ At(r, "compose_get", "handler")
    /\ LET id == req[r].id
       IN  req' =
             IF ~IdGiven(id) THEN Finish(r, RenderPage("compose.html", "", 0))
             ELSE IF ~IdParses(id) THEN Finish(r, HttpError(500, "ValueError"))
             ELSE IF \E e \in entries : e.id = id.n
                  THEN Finish(r, RenderPage("compose.html", "", id.n))
                  ELSE Finish(r, HttpError(404, ""))
    /\ UNCHANGED <<authors, entries, now, cookie>>

\* The edit branch's SELECT.
ComposeSelect(r) ==
    /\ At(r, "compose_post", "select")
    /\ LET id == req[r].id
       IN  req' =
             IF ~IdParses(id) THEN Finish(r, HttpError(500, "ValueError"))
             ELSE IF \E e \in entries : e.id = id.n
                  THEN LET entry == CHOOSE e \in entries : e.id = id.n
                       IN  [req EXCEPT ![r].pc = "update", ![r].slug = entry.slug]
                  ELSE Finish(r, HttpError(404, ""))
    /\ UNCHANGED <<authors, entries, now, cookie>>

\* An UPDATE that leaves the html column out.
UpdateEntryKeepsHtml(e, id, title, text, html) ==
    IF e.id = id THEN [e EXCEPT !.title = title, !.markdown = text] ELSE e
\* An UPDATE that regenerates the slug from the new title.
UpdateEntryReslug(e, id, title, text, html) ==
    IF e.id = id
    THEN [e EXCEPT !.title = title, !.markdown = text, !.html = html,
                   !.slug = SlugCandidate(title)]
    ELSE e
\* An UPDATE that also stamps `published`.
UpdateEntryRepublish(e, id, title, text, html) ==
    IF e.id = id
    THEN [e EXCEPT !.title = title, !.markdown = text, !.html = html,
                   !.published = 0]
    ELSE e
\* UPDATE entries SET title, markdown, html WHERE id
UpdateEntry(e, id, title, text, html) ==
    IF e.id = id
    THEN [e EXCEPT !.title = title, !.markdown = text, !.html = html]
    ELSE e

\* The edit branch's UPDATE and the redirect.
ComposeUpdate(r) ==
    /\ At(r, "compose_post", "update")
    /\ entries' = {UpdateEntry(e, req[r].id.n, req[r].title, req[r].text,
                               Render(req[r].text)) : e \in entries}
    /\ req' = Finish(r, RedirectTo("/entry/", req[r].slug))
    /\ UNCHANGED <<authors, now, cookie>>

\* One round of the create branch's probe loop.
ComposeProbe(r) ==
    /\ At(r, "compose_post", "probe")
    /\ req' = IF \E e \in entries : e.slug = req[r].slug
              THEN [req EXCEPT ![r].slug = AppendSuffix(req[r].slug)]
              ELSE Goto(r, "insert")
    /\ UNCHANGED <<authors, entries, now, cookie>>

\* A row whose author_id is not the current user's id.
NewEntryUnowned(q) ==
    [id |-> NextId(entries), author_id |-> 0, title |-> q.title,
     slug |-> q.slug, markdown |-> q.text, html |-> Render(q.text),
     published |-> now, updated |-> now]
\* The row the create branch inserts.
NewEntry(q) ==
    [id |-> NextId(entries), author_id |-> q.user, title |-> q.title,
     slug |-> q.slug, markdown |-> q.text, html |-> Render(q.text),
     published |-> now, updated |-> now]

\* The create branch's INSERT and the redirect.
ComposeInsert(r) ==
    /\ At(r, "compose_post", "insert")
    /\ IF SlugFree(req[r].slug, entries)
       THEN /\ entries' = entries \cup {NewEntry(req[r])}
            /\ now' = now + 1
            /\ req' = Finish(r, RedirectTo("/entry/", req[r].slug))
       ELSE /\ req' = Finish(r, HttpError(500, "UniqueViolation"))
            /\ UNCHANGED <<entries, now>>
    /\ UNCHANGED <<authors, cookie>>

(* -------------------------------- /auth ------------------------------- *)

\* self.get_argument("next", "/")
NextOrRoot(next) == IF next = "" THEN "/" ELSE next

\* set_cookie in place of set_signed_cookie: the value carries no signature.
SetCookieUnsigned(c, id) == [cookie EXCEPT ![c] = TamperedCookie(id)]
\* set_signed_cookie("blogdemo_user", str(author.id)) reaches the browser
\* with the response.
SetCookie(c, id) == [cookie EXCEPT ![c] = SignedCookie(id)]

\* AuthCreateHandler.get
AuthCreateGet(r) ==
    /\ At(r, "auth_create_get", "handler")
    /\ req' = Finish(r, RenderPage("create_author.html", "", 0))
    /\ UNCHANGED <<authors, entries, now, cookie>>

\* A login form that creates an Author when the store has none.
AuthLoginGetBootstraps(r) ==
    /\ At(r, "auth_login_get", "handler")
    /\ authors' = IF authors = {} THEN {[NoAuthor EXCEPT !.id = 1]} ELSE authors
    /\ req' = Finish(r, RenderPage("login.html", "", 0))
    /\ UNCHANGED <<entries, now, cookie>>
\* AuthLoginHandler.get
AuthLoginGet(r) ==
    /\ At(r, "auth_login_get", "handler")
    /\ req' = IF authors = {}
              THEN Finish(r, RedirectTo("/auth/create", <<>>))
              ELSE Finish(r, RenderPage("login.html", "", 0))
    /\ UNCHANGED <<authors, entries, now, cookie>>

\* AuthCreateHandler.post: any_author_exists()
AuthCreateExists(r) ==
    /\ At(r, "auth_create", "handler")
    /\ req' = IF authors # {}
              THEN Finish(r, HttpError(400, "author already created"))
              ELSE Goto(r, "hash")
    /\ UNCHANGED <<authors, entries, now, cookie>>

\* AuthCreateHandler.post: the offloaded bcrypt.hashpw
AuthCreateHash(r, salt) ==
    /\ At(r, "auth_create", "hash")
    /\ req' = [req EXCEPT ![r].pc = "insert",
                          ![r].author.hashed_password = HashPw(req[r].password, salt)]
    /\ UNCHANGED <<authors, entries, now, cookie>>

\* The row AuthCreateHandler.post inserts.
NewAuthor(q) ==
    [id |-> NextId(authors), email |-> q.email, name |-> q.name,
     hashed_password |-> q.author.hashed_password]

\* AuthCreateHandler.post: the INSERT, the cookie and the redirect.
AuthCreateInsert(r) ==
    /\ At(r, "auth_create", "insert")
    /\ IF EmailFree(req[r].email, authors)
       THEN /\ authors' = authors \cup {NewAuthor(req[r])}
            /\ cookie' = SetCookie(req[r].client, NewAuthor(req[r]).id)
            /\ req' = Finish(r, RedirectTo(NextOrRoot(req[r].next), <<>>))
       ELSE /\ req' = Finish(r, HttpError(500, "UniqueViolation"))
            /\ UNCHANGED <<authors, cookie>>
    /\ UNCHANGED <<entries, now>>

\* AuthLoginHandler.post: the SELECT by email.
AuthLoginQuery(r) ==
    /\ At(r, "auth_login", "handler")
    /\ req' = IF \E a \in authors : a.email = req[r].email
              THEN [req EXCEPT ![r].pc = "check",
                               ![r].author = CHOOSE a \in authors : a.email = req[r].email]
              ELSE Finish(r, RenderPage("login.html", "email not found", 0))
    /\ UNCHANGED <<authors, entries, now, cookie>>

\* AuthLoginHandler.post: the offloaded bcrypt.checkpw and the answer.
AuthLoginCheck(r) ==
    /\ At(r, "auth_login", "check")
    /\ IF CheckPw(req[r].password, req[r].author.hashed_password)
       THEN /\ cookie' = SetCookie(req[r].client, req[r].author.id)
            /\ req' = Finish(r, RedirectTo(NextOrRoot(req[r].next), <<>>))
       ELSE /\ req' = Finish(r, RenderPage("login.html", "incorrect password", 0))
            /\ UNCHANGED cookie
    /\ UNCHANGED <<authors, entries, now>>

\* A logout that redirects and leaves the cookie.
AuthLogoutKeepsCookie(r) ==
    /\ At(r, "auth_logout", "handler")
    /\ req' = Finish(r, RedirectTo(NextOrRoot(req[r].next), <<>>))
    /\ UNCHANGED <<authors, entries, now, cookie>>
\* AuthLogoutHandler.get
AuthLogout(r) ==
    /\ At(r, "auth_logout", "handler")
    /\ cookie' = [cookie EXCEPT ![req[r].client] = NoCookie]
    /\ req' = Finish(r, RedirectTo(NextOrRoot(req[r].next), <<>>))
    /\ UNCHANGED <<authors, entries, now>>

(* --------------------------- the specification ------------------------ *)

\* The steps of the compose flow, on requests whose fields are drawn from
\* the given sets.
ComposeStep(ids, posts) ==
    \/ \E r \in Reqs, c \in Clients : \E sent \in Sendable(c), id \in ids :
          ReceiveComposeGet(r, c, sent, id)
    \/ \E r \in Reqs, c \in Clients :
          \E sent \in Sendable(c), id \in ids, post \in posts :
             ReceiveComposePost(r, c, sent, id, post.title, post.text)
    \/ \E r \in Reqs : ComposeGet(r)
    \/ \E r \in Reqs : ComposeSelect(r)
    \/ \E r \in Reqs : ComposeUpdate(r)
    \/ \E r \in Reqs : ComposeProbe(r)
    \/ \E r \in Reqs : ComposeInsert(r)

\* The steps of POST /auth/create.
AuthCreateStep(emails, passwords, nexts) ==
    \/ \E r \in Reqs, c \in Clients :
          \E sent \in Sendable(c), email \in emails, name \in Names,
             password \in passwords, next \in nexts :
             ReceiveAuthCreate(r, c, sent, email, name, password, next)
    \/ \E r \in Reqs : AuthCreateExists(r)
    \/ \E r \in Reqs, salt \in Salts : AuthCreateHash(r, salt)
    \/ \E r \in Reqs : AuthCreateInsert(r)

\* The steps of POST /auth/login and GET /auth/logout.
AuthSessionStep(emails, passwords, nexts) ==
    \/ \E r \in Reqs, c \in Clients :
          \E sent \in Sendable(c), email \in emails, password \in passwords,
             next \in nexts :
             ReceiveAuthLogin(r, c, sent, email, password, next)
    \/ \E r \in Reqs, c \in Clients : \E sent \in Sendable(c), next \in nexts :
          ReceiveAuthLogout(r, c, sent, next)
    \/ \E r \in Reqs : AuthLoginQuery(r)
    \/ \E r \in Reqs : AuthLoginCheck(r)
    \/ \E r \in Reqs : AuthLogout(r)

\* The steps of compose-create alone, up to `cap` Entries.
ComposeCreateStep(cap, posts) ==
    \/ \E r \in Reqs, c \in Clients : \E sent \in Sendable(c), post \in posts :
          ReceiveComposePostUpTo(cap, r, c, sent, AbsentId, post.title, post.text)
    \/ \E r \in Reqs : ComposeProbe(r)
    \/ \E r \in Reqs : ComposeInsert(r)

\* The steps of GET /.
HomeStep ==
    \/ \E r \in Reqs, c \in Clients : \E sent \in Sendable(c) :
          ReceiveGet(r, c, sent, "home_get")
    \/ \E r \in Reqs : HomeGet(r)

\* The steps of GET /entry/{slug}.
EntryStep(slugs) ==
    \/ \E r \in Reqs, c \in Clients : \E sent \in Sendable(c), slug \in slugs :
          ReceiveEntryGet(r, c, sent, slug)
    \/ \E r \in Reqs : EntryGet(r)

\* The steps of GET /archive and GET /feed.
ListStep ==
    \/ \E r \in Reqs, c \in Clients : \E sent \in Sendable(c) :
          ReceiveGet(r, c, sent, "archive_get")
    \/ \E r \in Reqs, c \in Clients : \E sent \in Sendable(c) :
          ReceiveGet(r, c, sent, "feed_get")
    \/ \E r \in Reqs : ArchiveGet(r)
    \/ \E r \in Reqs : FeedGet(r)

\* The steps of GET /auth/create and GET /auth/login.
AuthFormStep ==
    \/ \E r \in Reqs, c \in Clients : \E sent \in Sendable(c) :
          ReceiveGet(r, c, sent, "auth_create_get")
    \/ \E r \in Reqs, c \in Clients : \E sent \in Sendable(c) :
          ReceiveGet(r, c, sent, "auth_login_get")
    \/ \E r \in Reqs : AuthCreateGet(r)
    \/ \E r \in Reqs : AuthLoginGet(r)

\* The server.
Next ==
    \/ ComposeStep(IdArgs, Posts)
    \/ AuthCreateStep(Emails, Passwords, Nexts)
    \/ AuthSessionStep(Emails, Passwords, Nexts)
    \/ HomeStep
    \/ EntryStep(Slugs)
    \/ ListStep
    \/ AuthFormStep
Spec == Init /\ [][Next]_vars

\* The compose flow on every compose input, behind the creation of the
\* Author with one set of credentials.
NextCompose ==
    \/ ComposeStep(IdArgs, Posts)
    \/ AuthCreateStep({"a@x"}, {"pw1"}, {""})
SpecCompose == Init /\ [][NextCompose]_vars

\* The auth flow alone, on every auth input: no step of the compose flow
\* reads or writes the authors table or a cookie.
NextAuth ==
    \/ AuthCreateStep(Emails, Passwords, Nexts)
    \/ AuthSessionStep(Emails, Passwords, Nexts)
SpecAuth == Init /\ [][NextAuth]_vars

\* Every route, on one set of credentials, one post, and the ids and slugs
\* of the first Entry and of none.
NextSite ==
    \/ ComposeStep({AbsentId, [kind |-> "int", n |-> 1]}, SitePosts)
    \/ AuthCreateStep({"a@x"}, {"pw1"}, {""})
    \/ AuthSessionStep({"a@x"}, {"pw1"}, {""})
    \/ HomeStep
    \/ EntryStep(Slugs)
    \/ ListStep
    \/ AuthFormStep
SpecSite == Init /\ [][NextSite]_vars

\* Creates, edits of the first Entry, and reads of an Entry by its slug.
NextEntry ==
    \/ ComposeStep({AbsentId, [kind |-> "int", n |-> 1]}, Posts)
    \/ AuthCreateStep({"a@x"}, {"pw1"}, {""})
    \/ EntryStep(Slugs)
SpecEntry == Init /\ [][NextEntry]_vars

\* Creates of one post up to one Entry more than the home page lists, and
\* reads of the home page.
NextHome ==
    \/ ComposeCreateStep(HomeLimit + 1, SitePosts)
    \/ AuthCreateStep({"a@x"}, {"pw1"}, {""})
    \/ HomeStep
SpecHome == Init /\ [][NextHome]_vars

\* The create of one Entry, on every title.
NextSlug ==
    \/ ComposeCreateStep(1, TitlePosts)
    \/ AuthCreateStep({"a@x"}, {"pw1"}, {""})
SpecSlug == Init /\ [][NextSlug]_vars

\* Creates alone.  The event loop resumes every coroutine whose awaited
\* statement has completed, so no create waits forever at its SELECT or at
\* its INSERT.
NextProbe ==
    \/ ComposeCreateStep(MaxEntries, Posts)
    \/ AuthCreateStep({"a@x"}, {"pw1"}, {""})
SpecProbe ==
    /\ Init
    /\ [][NextProbe]_vars
    /\ \A r \in Reqs : WF_vars(ComposeProbe(r)) /\ WF_vars(ComposeInsert(r))

(* ------------------------------- claims ------------------------------ *)

ComposeKinds == {"compose_get", "compose_post"}
InFlight(r) == req[r].pc \notin {"idle", "done"}

C2_AtMostOneAuthor == Cardinality(authors) <= 1

\* The request carries no cookie, a cookie whose signature does not verify,
\* or a cookie naming no Author.
Unauthenticated(q) ==
    ~(q.cookie.present /\ q.cookie.valid /\ \E a \in authors : a.id = q.cookie.id)

\* Slot r takes a step in this transition.
Acts(r) == req'[r] # req[r]

\* What holds of every /compose request that resolves no current Author,
\* and of every step that changes the entries table.
C3_State ==
    \A r \in Reqs :
        req[r].kind \in ComposeKinds /\ Unauthenticated(req[r]) =>
            /\ req[r].pc = "done"
            /\ req[r].resp.kind # "render"
            /\ req[r].resp.path # "/entry/"
C3_Action ==
    entries' # entries =>
        \E r \in Reqs :
            /\ Acts(r)
            /\ req[r].kind = "compose_post"
            /\ ~Unauthenticated(req[r])
\* C3: a GET or POST to /compose that resolves no current Author never
\* succeeds: it is answered at once, renders no form and redirects to no
\* Entry, and no step that changes the entries table is taken by it.
C3_UnauthenticatedComposeFails == [](C3_State) /\ [][C3_Action]_vars

\* A POST to /compose with the cookie of an earlier database was answered
\* while the store holds Entries.
C3_Witness ==
    \E r \in Reqs :
        /\ req[r].kind = "compose_post"
        /\ req[r].pc = "done"
        /\ req[r].cookie \in {SignedCookie(i) : i \in StaleIds}
        /\ Cardinality(entries) = 2

\* C4: in every reachable state every Entry's html is the rendering of its
\* stored markdown, concurrent edits of one Entry included.
C4_HtmlIsRenderedMarkdown == \A e \in entries : e.html = Render(e.markdown)

\* The first Entry was edited to another text, and another edit of it is
\* suspended before its UPDATE.
C4_Witness ==
    /\ \E e \in entries : e.id = 1 /\ e.slug = <<"a">> /\ e.markdown = "# hi"
    /\ \E r \in Reqs :
          At(r, "compose_post", "update") /\ req[r].id.n = 1 /\ req[r].text = "hi"

\* What a step does to the slugs, and where an edit redirects.
C5_Action ==
    /\ \A e \in entries : \E f \in entries' : f.id = e.id /\ f.slug = e.slug
    /\ \A r \in Reqs :
          At(r, "compose_post", "update") /\ Acts(r) =>
              \E e \in entries :
                  /\ e.id = req[r].id.n
                  /\ req'[r].resp = RedirectTo("/entry/", e.slug)
\* C5: an edit leaves the Entry's slug as it is, whatever the title, and
\* redirects to /entry/{that slug}; no step changes the slug of an Entry.
C5_EditKeepsSlug == [][C5_Action]_vars

\* The Entry created as "a 2" has been given the title "A", whose
\* candidate is another slug, and the edit was redirected to the old slug.
C5_Witness ==
    /\ \E e \in entries : e.id = 1 /\ e.slug = <<"a", "-", "2">> /\ e.title = <<"A">>
    /\ \E r \in Reqs :
          /\ req[r].kind = "compose_post"
          /\ req[r].resp = RedirectTo("/entry/", <<"a", "-", "2">>)

\* The submitted password is the one the stored hash was computed from.
Verifies(password, a) ==
    a.hashed_password.digest = <<a.hashed_password.salt, password>>

\* What a step of a login request does.
C6_Action ==
    \A r \in Reqs :
        req[r].kind = "auth_login" /\ Acts(r) /\ InFlight(r) =>
            LET q == req[r]
                known == {a \in authors : a.email = q.email}
            IN  /\ authors' = authors
                /\ entries' = entries
                /\ IF known = {}
                   THEN /\ req'[r].pc = "done"
                        /\ req'[r].resp = RenderPage("login.html", "email not found", 0)
                        /\ cookie' = cookie
                   ELSE IF q.pc = "handler"
                   THEN req'[r].pc = "check" /\ cookie' = cookie
                   ELSE \E a \in known :
                          /\ req'[r].pc = "done"
                          /\ IF Verifies(q.password, a)
                             THEN /\ cookie' = [cookie EXCEPT ![q.client] = SignedCookie(a.id)]
                                  /\ req'[r].resp =
                                       RedirectTo(IF q.next = "" THEN "/" ELSE q.next, <<>>)
                             ELSE /\ cookie' = cookie
                                  /\ req'[r].resp =
                                       RenderPage("login.html", "incorrect password", 0)
\* C6: POST /auth/login ends in one of three ways: unknown email, the form
\* again with "email not found" and no cookie; known email and a password
\* that does not verify, the form again with "incorrect password" and no
\* cookie; a password that verifies, the cookie set to the Author's id and
\* a redirect to `next` or "/".  No step of it changes the store.
C6_LoginOutcomes == [][C6_Action]_vars

\* One login was refused for its password and another one succeeded.
C6_Witness ==
    \E r1 \in Reqs, r2 \in Reqs :
        /\ req[r1].kind = "auth_login"
        /\ req[r1].resp.error = "incorrect password"
        /\ req[r2].kind = "auth_login"
        /\ req[r2].resp.kind = "redirect"
        /\ \E a \in authors : cookie[1] = SignedCookie(a.id)

\* What the existence check and the INSERT of a create request do.
C7_Action ==
    \A r \in Reqs :
        req[r].kind = "auth_create" /\ Acts(r) =>
            LET q == req[r]
            IN  /\ q.pc = "handler" /\ authors # {} =>
                    /\ req'[r].pc = "done"
                    /\ req'[r].resp = HttpError(400, "author already created")
                    /\ authors' = authors
                    /\ cookie' = cookie
                /\ q.pc = "insert" /\ authors = {} =>
                    \E a \in authors' :
                        /\ authors' = {a}
                        /\ a.email = q.email
                        /\ req'[r].resp.kind = "redirect"
                        /\ cookie'[q.client] = SignedCookie(a.id)
                        /\ CurrentUser(cookie'[q.client], authors') = a.id
\* C7: POST /auth/create that finds an Author is answered 400 and changes
\* neither the authors table nor the cookie; on an empty table it inserts
\* one Author and sets a cookie that resolves to that Author.
C7_CreateOutcomes == [][C7_Action]_vars

\* The first use created the Author and logged it in; a later use was
\* answered 400.
C7_Witness ==
    /\ Cardinality(authors) = 1
    /\ \E a \in authors : cookie[1] = SignedCookie(a.id)
    /\ \E r \in Reqs : req[r].kind = "auth_create" /\ req[r].resp.status = 400

C9_Action ==
    \A r \in Reqs :
        LET q == req[r]
        IN  (/\ q.kind \in ComposeKinds
             /\ q.pc \in {"handler", "select"}
             /\ Acts(r)
             /\ \/ q.id.kind = "malformed"
                \/ q.id.kind = "int" /\ ~\E e \in entries : e.id = q.id.n)
            => req'[r].resp.status = 404 /\ entries' = entries
\* C9: an authenticated /compose request whose `id` is no integer, or is
\* the id of no Entry, ends in 404 and leaves the entries table as it was.
C9_BadIdIsNotFound == [][C9_Action]_vars

\* c followed by k copies of "-2".
RECURSIVE Suffixed(_, _)
Suffixed(c, k) == IF k = 0 THEN c ELSE Suffixed(c, k - 1) \o <<"-", "2">>

\* The least k for which no row has the slug c followed by k copies of "-2".
LeastFree(c, rows) ==
    CHOOSE k \in 0..Cardinality(rows) :
        /\ \A e \in rows : e.slug # Suffixed(c, k)
        /\ \A j \in 0..(k - 1) : \E e \in rows : e.slug = Suffixed(c, j)

\* What the INSERT of a compose-create adds.
C10_Action ==
    \A r \in Reqs :
        At(r, "compose_post", "insert") /\ Acts(r) /\ entries' # entries =>
            LET c == SlugCandidate(req[r].title)
            IN  \E e \in entries' :
                    /\ entries' = entries \cup {e}
                    /\ e.slug = Suffixed(c, LeastFree(c, entries))
                    /\ req'[r].resp = RedirectTo("/entry/", e.slug)
\* C10: the slug a compose-create inserts is its candidate c followed by k
\* copies of "-2", for the least k such that no stored Entry has that slug.
C10_LiteralSuffix == [][C10_Action]_vars

\* Three creates of the title "A" in a row: "a", "a-2", "a-2-2".
C10_Witness ==
    \E e1 \in entries, e2 \in entries, e3 \in entries :
        /\ e1.id = 1 /\ e1.title = <<"A">> /\ e1.slug = <<"a">>
        /\ e2.id = 2 /\ e2.title = <<"A">> /\ e2.slug = <<"a", "-", "2">>
        /\ e3.id = 3 /\ e3.title = <<"A">> /\ e3.slug = <<"a", "-", "2", "-", "2">>

\* What an edit does to the `updated` column.
C11_Action ==
    \A r \in Reqs :
        At(r, "compose_post", "update") /\ Acts(r) =>
            \A e \in entries :
                e.id = req[r].id.n =>
                    \E f \in entries' :
                        f.id = e.id /\ f.updated = now /\ f.updated # e.updated
\* C11: every successful edit sets the Entry's `updated` to the time of
\* the edit, which is no longer the value it had before.
C11_EditResetsUpdated == [][C11_Action]_vars

\* What GET / answers on the store it reads.
C12_Action ==
    \A r \in Reqs :
        At(r, "home_get", "handler") /\ Acts(r) =>
            LET n == Cardinality(entries)
                resp == req'[r].resp
                listed == {resp.rows[i] : i \in 1..Len(resp.rows)}
            IN  IF n = 0
                THEN /\ resp.kind = "redirect"
                     /\ resp.path = "/compose"
                     /\ resp.rows = <<>>
                ELSE /\ resp.kind = "render"
                     /\ Len(resp.rows) = (IF n < 5 THEN n ELSE 5)
                     /\ listed \subseteq entries
                     /\ \A i \in 1..Len(resp.rows), j \in 1..Len(resp.rows) :
                           i < j => /\ resp.rows[i] # resp.rows[j]
                                    /\ resp.rows[i].published >= resp.rows[j].published
                     /\ \A e \in entries \ listed, f \in listed :
                           e.published <= f.published
\* C12: GET / on a store with no Entry redirects to /compose and renders
\* nothing; on a store with n >= 1 Entries it renders the min(5, n) Entries
\* with the latest `published`, latest first.
C12_HomeListsLatestFive == [][C12_Action]_vars

\* The home page was read on the empty store, and again on a store with six
\* Entries: it lists the five with ids 6 down to 2.
C12_Witness ==
    \E r1 \in Reqs, r2 \in Reqs :
        /\ req[r1].kind = "home_get"
        /\ req[r1].resp.path = "/compose"
        /\ req[r2].kind = "home_get"
        /\ Len(req[r2].resp.rows) = 5
        /\ req[r2].resp.rows[1].id = 6
        /\ req[r2].resp.rows[5].id = 2

\* The Author a cookie stands for: the payload of a validly signed cookie
\* if an Author has that id, and none (0) otherwise.
Resolves(c) ==
    IF c.present /\ c.valid /\ (\E a \in authors : a.id = c.id) THEN c.id ELSE 0

\* Slot r takes a request in this transition.
Arrives(r) == ~InFlight(r) /\ Acts(r)

\* What prepare resolves for every cookie a request can carry, and what
\* the arrival of a request does.
C13_State ==
    \A c \in Clients : \A sent \in Sendable(c) :
        CurrentUser(sent, authors) = Resolves(sent)
C13_Action ==
    \A r \in Reqs :
        Arrives(r) =>
            LET q == req'[r]
            IN  /\ q.resp.kind # "error"
                /\ q.kind \in ComposeKinds =>
                      /\ q.user = Resolves(q.cookie)
                      /\ q.user = 0 <=> q.pc = "done"
                /\ q.kind \notin ComposeKinds => q.pc = "handler"
\* C13: the current Author of a request is the Author whose id a validly
\* signed cookie carries, if the store has it, and none when the cookie is
\* absent, does not verify or names no Author; resolving none is no error:
\* the request goes on to its handler, or to the login redirect of a route
\* that requires an Author.
C13_CurrentAuthor == [](C13_State) /\ [][C13_Action]_vars

\* One /compose request runs as the Author, and another, which carried the
\* cookie of an earlier database, was answered without an error.
C13_Witness ==
    \E r1 \in Reqs, r2 \in Reqs :
        /\ req[r1].kind = "compose_get"
        /\ InFlight(r1)
        /\ req[r1].user = 1
        /\ req[r2].kind = "compose_post"
        /\ req[r2].cookie \in {SignedCookie(i) : i \in StaleIds}
        /\ req[r2].user = 0
        /\ req[r2].resp.status = 302


\* What a logout does, which steps give a client without cookie a cookie,
\* and what becomes of a /compose request that carries no cookie.
C14_Action ==
    /\ \A r \in Reqs :
          At(r, "auth_logout", "handler") /\ Acts(r) =>
              /\ cookie'[req[r].client] = NoCookie
              /\ authors' = authors
              /\ entries' = entries
    /\ \A c \in Clients :
          cookie[c] = NoCookie /\ cookie'[c] # NoCookie =>
              \E r \in Reqs :
                  /\ Acts(r)
                  /\ req[r].kind \in {"auth_login", "auth_create"}
                  /\ req[r].client = c
                  /\ req'[r].resp.kind = "redirect"
                  /\ \E a \in authors' : cookie'[c] = SignedCookie(a.id)
    /\ \A r \in Reqs :
          Arrives(r) /\ req'[r].kind \in ComposeKinds /\ req'[r].cookie = NoCookie =>
              /\ req'[r].user = 0
              /\ req'[r].pc = "done"
              /\ req'[r].resp.path = "/auth/login"
              /\ entries' = entries
\* C14: GET /auth/logout clears the client's cookie and leaves the store as
\* it is; the cookie stays cleared until a POST /auth/login or a POST
\* /auth/create of that client succeeds; a /compose request without cookie
\* resolves no Author, is answered with the login redirect and changes no
\* Entry.
C14_LogoutClearsSession == [][C14_Action]_vars

\* After a logout the client has no cookie, and its POST to /compose was
\* answered with the login redirect while the store holds an Entry.
C14_Witness ==
    \E r1 \in Reqs, r2 \in Reqs :
        /\ req[r1].kind = "auth_logout"
        /\ req[r1].pc = "done"
        /\ cookie[1] = NoCookie
        /\ entries # {}
        /\ req[r2].kind = "compose_post"
        /\ req[r2].cookie = NoCookie
        /\ req[r2].resp.path = "/auth/login"

\* What a create stores and where it redirects, which steps change a
\* stored Entry, and what GET /entry/{slug} answers.
C15_Action ==
    /\ \A r \in Reqs :
          At(r, "compose_post", "insert") /\ Acts(r) /\ req'[r].resp.kind = "redirect" =>
              \E e \in entries' \ entries :
                  /\ req'[r].resp.path = "/entry/"
                  /\ req'[r].resp.slug = e.slug
                  /\ e.markdown = req[r].text
                  /\ e.html = Render(req[r].text)
    /\ \A e \in entries :
          e \in entries' \/
              \E r \in Reqs :
                  At(r, "compose_post", "update") /\ Acts(r) /\ req[r].id.n = e.id
    /\ \A r \in Reqs :
          At(r, "entry_get", "handler") /\ Acts(r) =>
              LET hits == {e \in entries : e.slug = req[r].slug}
                  resp == req'[r].resp
              IN  IF hits = {}
                  THEN resp.kind = "error" /\ resp.status = 404
                  ELSE \E e \in hits :
                          /\ resp.kind = "render"
                          /\ resp.template = "entry.html"
                          /\ resp.rows = <<e>>
\* C15: a create with markdown m that redirects to /entry/{s} has stored an
\* Entry with slug s, markdown m and html render(m); only an edit of that
\* Entry changes it; GET /entry/{s} answers with the stored Entry of slug s,
\* and with 404 when no Entry has that slug.
C15_CreateReadRoundTrip == [][C15_Action]_vars

\* GET /entry/a was answered with the Entry as created, and a GET of a
\* slug no Entry has with 404.
C15_Witness ==
    \E r1 \in Reqs, r2 \in Reqs :
        /\ req[r1].kind = "entry_get"
        /\ Len(req[r1].resp.rows) = 1
        /\ req[r1].resp.rows[1].slug = <<"a">>
        /\ req[r1].resp.rows[1].markdown = "hi"
        /\ req[r1].resp.rows[1].html = "<p>hi</p>"
        /\ req[r2].kind = "entry_get"
        /\ req[r2].resp.status = 404
        /\ entries # {}

\* The GET requests of the claim.
GetKinds ==
    {"home_get", "archive_get", "feed_get", "entry_get", "compose_get",
     "auth_create_get", "auth_login_get"}

\* What the steps of a GET leave alone, and which steps change a table.
C16_Action ==
    /\ \A r \in Reqs :
          Acts(r) /\ (req[r].kind \in GetKinds \/ req'[r].kind \in GetKinds) =>
              authors' = authors /\ entries' = entries
    /\ entries' # entries =>
          \E r \in Reqs :
              /\ Acts(r)
              /\ InFlight(r)
              /\ req[r].kind = "compose_post"
              /\ req[r].user # 0
              /\ req[r].user = Resolves(req[r].cookie)
    /\ authors' # authors =>
          \E r \in Reqs : Acts(r) /\ InFlight(r) /\ req[r].kind = "auth_create"
\* C16: no step of a GET of /, /archive, /feed, /entry/{slug}, /compose,
\* /auth/create or /auth/login, its arrival included, changes the authors
\* or the entries table; the entries table is changed by authenticated
\* POST /compose requests only, and the authors table by POST /auth/create
\* only.
C16_ReadsNeverMutate == [][C16_Action]_vars

\* On a store with an Author and two Entries, the archive was rendered with
\* both and the compose form with the first.
C16_Witness ==
    \E r1 \in Reqs, r2 \in Reqs :
        /\ req[r1].kind = "archive_get"
        /\ Len(req[r1].resp.rows) = 2
        /\ req[r2].kind = "compose_get"
        /\ req[r2].resp.kind = "render"
        /\ req[r2].resp.entry = 1
        /\ Cardinality(authors) = 1

\* The ASCII word characters and the hyphen.
SlugChars == {"a", "A", "e", "2", "_", "n", "t", "r", "y", "-"}
\* The characters of a title that are no word characters: white space,
\* punctuation, the hyphen and the combining accent.
NonWordChars == {" ", "!", "-", "acute"}

\* C17: the slug candidate of every title, the empty one, those of
\* punctuation or white space only and those with accented or non-ASCII
\* letters included, is non-empty, consists of ASCII word characters and
\* hyphens and has no white space; it is "entry" for a title that has no
\* word character, or a single non-ASCII letter.
C17_SlugCandidateShape ==
    \A r \in Reqs :
        At(r, "compose_post", "probe") /\ entries = {} =>
            LET title == req[r].title
                slug == req[r].slug
            IN  /\ slug # <<>>
                /\ \A i \in 1..Len(slug) : slug[i] \in SlugChars /\ slug[i] # " "
                /\ (\A i \in 1..Len(title) : title[i] \in NonWordChars) =>
                      slug = <<"e", "n", "t", "r", "y">>
                /\ title = <<"zh">> => slug = <<"e", "n", "t", "r", "y">>

\* A create with a title of punctuation and white space probes the slug
\* "entry".
C17_Witness ==
    \E r \in Reqs :
        /\ At(r, "compose_post", "probe")
        /\ req[r].title = <<"!", " ">>
        /\ req[r].slug = <<"e", "n", "t", "r", "y">>
        /\ entries = {}

\* What the UPDATE of an edit changes, and what every step does to
\* `published`.
C18_Action ==
    /\ \A r \in Reqs :
          At(r, "compose_post", "update") /\ Acts(r) =>
              /\ authors' = authors
              /\ Cardinality(entries') = Cardinality(entries)
              /\ \A e \in entries :
                    IF e.id # req[r].id.n
                    THEN e \in entries'
                    ELSE \E f \in entries' :
                            /\ f.id = e.id
                            /\ f.author_id = e.author_id
                            /\ f.published = e.published
                            /\ f.title = req[r].title
                            /\ f.markdown = req[r].text
                            /\ f.html = Render(req[r].text)
    /\ \A e \in entries :
          \E f \in entries' :
              f.id = e.id /\ f.author_id = e.author_id /\ f.published = e.published
\* C18: a successful edit of an Entry changes its title, markdown and html
\* and leaves its id, author_id and published, every other Entry, the
\* number of Entries and the authors table as they are; no step changes the
\* `published` of an Entry.
C18_EditFrame == [][C18_Action]_vars

\* The first of two Entries, created as "A", has been given another title
\* and text, and has the `published` of its creation.
C18_Witness ==
    /\ Cardinality(entries) = 2
    /\ \E e \in entries :
          /\ e.id = 1
          /\ e.slug = <<"a">>
          /\ e.title = <<"a", " ", "2">>
          /\ e.markdown = "# hi"
          /\ e.published = 1

\* Every Entry has an Author of the store, and every cookie in a browser
\* names one; what a create inserts, and what a step that sets a cookie
\* sets it to.
C19_State ==
    /\ \A e \in entries : \E a \in authors : a.id = e.author_id
    /\ \A c \in Clients :
          cookie[c].present =>
              cookie[c].valid /\ \E a \in authors : a.id = cookie[c].id
C19_Action ==
    /\ \A r \in Reqs :
          At(r, "compose_post", "insert") /\ Acts(r) =>
              \A e \in entries' \ entries :
                  /\ e.author_id = req[r].user
                  /\ e.author_id = Resolves(req[r].cookie)
                  /\ e.published = e.updated
                  /\ e.published = now
    /\ \A c \in Clients :
          cookie'[c] # cookie[c] /\ cookie'[c] # NoCookie =>
              \E r \in Reqs, a \in authors' :
                  /\ Acts(r)
                  /\ req[r].kind \in {"auth_login", "auth_create"}
                  /\ cookie'[c] = SignedCookie(a.id)
\* C19: in every reachable state every Entry's author_id is the id of an
\* Author of the store, the one resolved as current for the request that
\* created it, with published = updated at creation; and every cookie that
\* POST /auth/login or POST /auth/create issues carries the id of an Author
\* of the store.
C19_OwnersAndSessionsExist == [](C19_State) /\ [][C19_Action]_vars

\* The Author logged in again after a logout, and owns two Entries.
C19_Witness ==
    /\ Cardinality(entries) = 2
    /\ \A e \in entries : e.author_id = 1
    /\ cookie[1] = SignedCookie(1)
    /\ \E r1 \in Reqs, r2 \in Reqs :
          /\ req[r1].kind = "auth_login"
          /\ req[r1].resp.kind = "redirect"
          /\ req[r2].kind = "auth_logout"
          /\ req[r2].pc = "done"

\* A create in slot r is in its probe loop or at its INSERT.
Creating(r) == req[r].kind = "compose_post" /\ req[r].pc \in {"probe", "insert"}

\* What the INSERT of a create ends in, as the claim states it and as the
\* store allows it.
C20_InsertsAndRedirects ==
    \A r \in Reqs :
        At(r, "compose_post", "insert") /\ Acts(r) =>
            /\ Cardinality(entries') = Cardinality(entries) + 1
            /\ req'[r].resp = RedirectTo("/entry/", req[r].slug)
C20_InsertsOrIsRefused ==
    \A r \in Reqs :
        At(r, "compose_post", "insert") /\ Acts(r) =>
            \/ /\ Cardinality(entries') = Cardinality(entries) + 1
               /\ \E e \in entries' \ entries : e.slug = req[r].slug
               /\ req'[r].resp = RedirectTo("/entry/", req[r].slug)
            \/ /\ entries' = entries
               /\ \E e \in entries : e.slug = req[r].slug
               /\ req'[r].resp = HttpError(500, "UniqueViolation")

====
